---- MODULE Spec2Model ----
(***************************************************************************)
(* Dasymetric ring-buffer population widgets (jsogle1/widgets).            *)
(*                                                                         *)
(* The repository holds several iterations of the same widget.  The model  *)
(* carries the iteration as the variable `variant`:                        *)
(*   "main"  src/buffer-dasymetric/src/runtime/widget.tsx (first widget)   *)
(*   "p000"  src/unnamed/part_000                                          *)
(*   "p001"  src/unnamed/part_001                                          *)
(*   "p004"  src/unnamed/part_004 (first widget)                           *)
(*   "p006"  src/unnamed/part_006                                          *)
(*   "p002"  src/unnamed/part_002   (one query over the largest buffer)    *)
(*   "p005"  src/unnamed/part_005   (the same, later iteration)            *)
(*   "p004b" src/unnamed/part_004   (second widget of the file)            *)
(*   "p007"  src/unnamed/part_007   (CensusBufferWidget: click a feature)  *)
(*   "p009"  src/unnamed/part_009   (site location of one map click)       *)
(*   "report" src/widget.tsx        (ReportWidget: reports for a feature)  *)
(*                                                                         *)
(* Numbers.  JavaScript values are records [t, v]: t = "num" with integer  *)
(* v, or t = "nan" / "undefined" with v = 0.  Distances are kept in        *)
(* quarter miles (0.25 mi = 1) and printed the way JavaScript prints the   *)
(* number in miles.  Areas and populations are integers; a ratio is the    *)
(* exact fraction n/d, so Math.round is computed on the exact product.     *)
(*                                                                         *)
(* Geometry.  The circles at the configured distances cut the plane into   *)
(* zones: zone z is the annulus between ZoneOuter[z-1] and ZoneOuter[z].   *)
(* A polygon is the area it has in every zone; a buffer is the set of      *)
(* zones inside its radius.                                                *)
(***************************************************************************)
EXTENDS Integers, Sequences, FiniteSets, TLC

VARIABLES variant, config, census, degenerate, state, runs, bufferLayer,
          consoleLog, eventsLeft, mapView

vars == <<variant, config, census, degenerate, state, runs, bufferLayer,
          consoleLog, eventsLeft, mapView>>

(***************************************************************************)
(* Bounds of the model.                                                    *)
(***************************************************************************)
MaxRuns == 2
MaxFeatures == 2
MaxArea == 2
MaxPop == 1
MaxZone == 2
MaxEvents == 5

\* the widgets with a ring loop, the widgets that query the largest buffer
\* once, and the widget that buffers a clicked feature
RingVariants == {"main", "p000", "p001", "p004", "p006"}
CumulativeVariants == {"p002", "p005", "p004b"}
FormVariants == RingVariants \cup CumulativeVariants
Variants == FormVariants \cup {"p007", "p009", "report"}

(***************************************************************************)
(* JavaScript values and the operators the code applies to them.           *)
(***************************************************************************)
Num(n) == [t |-> "num", v |-> n]
NaN == [t |-> "nan", v |-> 0]
undefined == [t |-> "undefined", v |-> 0]

IsNum(x) == x.t = "num"
\* !x
Falsy(x) == x.t # "num" \/ x.v = 0
\* isNaN(x): undefined converts to NaN
isNaN(x) == x.t # "num"
\* x <= 0, x > 0, x > y: every comparison with NaN or undefined is false
LeqZero(x) == x.t = "num" /\ x.v <= 0
GtZero(x) == x.t = "num" /\ x.v > 0
Gt(x, y) == x.t = "num" /\ y.t = "num" /\ x.v > y.v
\* x || 0
OrZero(x) == IF Falsy(x) THEN Num(0) ELSE x
\* x + y
Plus(x, y) == IF IsNum(x) /\ IsNum(y) THEN Num(x.v + y.v) ELSE NaN

\* A ratio is the exact fraction n/d (d > 0), or NaN.
Ratio(n, d) == [t |-> "num", n |-> n, d |-> d]
RatioNaN == [t |-> "nan", n |-> 0, d |-> 1]
\* x / y for numbers with y > 0 (the callers guard y); NaN otherwise
Divide(x, y) ==
  IF IsNum(x) /\ IsNum(y) /\ y.v > 0 THEN Ratio(x.v, y.v) ELSE RatioNaN

\* Math.round(ratio * p): floor(x + 0.5), NaN when an operand is not a number
MathRoundTimes(ratio, p) ==
  IF ratio.t = "num" /\ IsNum(p)
  THEN Num((2 * ratio.n * p.v + ratio.d) \div (2 * ratio.d))
  ELSE NaN

(***************************************************************************)
(* Number to string, as a template literal prints a distance in miles.     *)
(***************************************************************************)
Digits == <<"0", "1", "2", "3", "4", "5", "6", "7", "8", "9">>

RECURSIVE NatToString(_)
NatToString(n) ==
  IF n < 10 THEN Digits[n + 1]
  ELSE NatToString(n \div 10) \o Digits[(n % 10) + 1]

\* q is the distance in quarter miles: 1 -> "0.25", 2 -> "0.5", 4 -> "1"
MilesToString(q) ==
  NatToString(q \div 4) \o
    (CASE q % 4 = 0 -> ""
       [] q % 4 = 1 -> ".25"
       [] q % 4 = 2 -> ".5"
       [] q % 4 = 3 -> ".75")

(***************************************************************************)
(* Constants of the widgets.                                               *)
(***************************************************************************)
BUFFER_DISTANCES_MILES(v) ==
  IF v = "p000" THEN <<1, 2, 4, 8, 12, 16, 20>> ELSE <<1, 2, 4, 8, 12, 16>>

\* first value of the loop variable `index`, as a 1-based position
FirstIndex(v) == IF v \in {"p000", "p004"} THEN 2 ELSE 1

\* summaryStats as declared before the ring loop
InitialSummaryStats(v) ==
  CASE v \in {"main", "p001"} -> [k \in {} |-> Num(0)]
    [] v = "p006" ->
         [k \in {"0-0.25 miles", "0.25-0.5 miles", "0.5-1 miles",
                 "1-2 miles", "2-3 miles", "3-4 miles"} |-> Num(0)]
    [] v = "p004" ->
         [k \in {"0-.25 miles", ".25-.5 miles", ".5-1 miles",
                 "1-2 miles", "2-3 miles", "3-4 miles"} |-> Num(0)]
    [] v = "p000" ->
         \* the source writes the first two keys with the glyphs for 1/4, 1/2
         [k \in {"1/4-1/2 mile", "1/2-1 mile", "1-2 miles", "2-3 miles",
                 "3-4 miles", "4-5 miles"} |-> Num(0)]

\* the template literal that names ring i (1-based position in the list)
ringLabel(v, i) ==
  LET D == BUFFER_DISTANCES_MILES(v)
      inner == IF i > 1 THEN MilesToString(D[i - 1])
               ELSE IF v \in {"p000", "p004"} THEN "undefined" ELSE "0"
  IN inner \o "-" \o MilesToString(D[i]) \o " miles"

(***************************************************************************)
(* Geometry provider.                                                      *)
(***************************************************************************)
ZoneOuter == <<1, 2, 4, 8, 12, 16, 20>>
Zones == 1..Len(ZoneOuter)
NoGeometry == {0}

\* geometryEngine.buffer(projectedPoint, d): null for a degenerate distance
buffer(d) ==
  IF degenerate.op = "buffer" /\ degenerate.d = d THEN NoGeometry
  ELSE {z \in Zones : ZoneOuter[z] <= d}

\* geometryEngine.difference(a, b): null when nothing is left
difference(a, b, d) ==
  IF a = NoGeometry \/ b = NoGeometry THEN NoGeometry
  ELSE IF degenerate.op = "difference" /\ degenerate.d = d THEN NoGeometry
  ELSE IF a \ b = {} THEN NoGeometry ELSE a \ b

RECURSIVE SumArea(_, _)
SumArea(geom, zs) ==
  IF zs = {} THEN 0
  ELSE LET z == CHOOSE x \in zs : TRUE
       IN geom[z] + SumArea(geom, zs \ {z})

\* geometryEngine.geodesicArea(geometryEngine.intersect(feature.geometry, ring))
\* 0 stands for the null intersection
clippedArea(feature, ring) == SumArea(feature.geom, ring \cap Zones)

\* spatialRelationship "intersects": polygons overlapping the ring, and
\* polygons of the neighbouring zones, which share the ring's boundary
Intersects(feature, ring) ==
  \E z \in ring \cap Zones :
     \/ feature.geom[z] > 0
     \/ z > 1 /\ feature.geom[z - 1] > 0
     \/ z < Len(ZoneOuter) /\ feature.geom[z + 1] > 0

\* the ring built for position i: NoGeometry when the loop `continue`s
ringBuffer(v, i) ==
  LET D == BUFFER_DISTANCES_MILES(v)
      outerBuffer == buffer(D[i])
      innerBuffer == IF i > 1 THEN buffer(D[i - 1]) ELSE NoGeometry
  IN IF v \in {"p000", "p004"}
     THEN IF outerBuffer = NoGeometry \/ innerBuffer = NoGeometry
          THEN NoGeometry
          ELSE difference(outerBuffer, innerBuffer, D[i])
     ELSE IF innerBuffer # NoGeometry
          THEN difference(outerBuffer, innerBuffer, D[i])
          ELSE outerBuffer

(***************************************************************************)
(* Areal interpolation: the body of results.features.forEach.              *)
(***************************************************************************)
Get(stats, k) == IF k \in DOMAIN stats THEN stats[k] ELSE undefined
Put(stats, k, x) ==
  [l \in DOMAIN stats \cup {k} |-> IF l = k THEN x ELSE stats[l]]

\* the early returns of the callback: TRUE when the candidate is skipped
skipCandidate(v, clippedAcres, originalAcres) ==
  IF v = "p000"
  THEN isNaN(clippedAcres) \/ LeqZero(clippedAcres)
       \/ Falsy(originalAcres) \/ LeqZero(originalAcres)
  ELSE Falsy(originalAcres) \/ LeqZero(originalAcres) \/ isNaN(originalAcres)

\* `if (clippedAcres > originalAcres) clippedAcres = originalAcres` (part_004)
clampAcres(v, clippedAcres, originalAcres) ==
  IF v = "p004" /\ Gt(clippedAcres, originalAcres) THEN originalAcres
  ELSE clippedAcres

areaRatio(v, clippedAcres, originalAcres) ==
  IF v = "p000" THEN Divide(clippedAcres, originalAcres)
  ELSE IF GtZero(clippedAcres) THEN Divide(clippedAcres, originalAcres)
  ELSE Ratio(0, 1)

adjPop(v, ratio, TOTALPOP) ==
  CASE v = "p000" -> MathRoundTimes(ratio, TOTALPOP)
    [] v = "p004" -> IF ratio.t # "num" THEN Num(0)
                     ELSE MathRoundTimes(ratio, OrZero(TOTALPOP))
    [] OTHER -> MathRoundTimes(ratio, OrZero(TOTALPOP))

\* accumulate with the assignment `=` in place of `+=`
accumulateAssign(v, stats, label, pop) == Put(stats, label, pop)

\* the statement(s) that add adjPop to the ring's entry of summaryStats
accumulate(v, stats, label, pop) ==
  CASE v \in {"main", "p001"} ->
         Put(stats, label, Plus(OrZero(Get(stats, label)), pop))
    [] v = "p004" ->
         LET s1 == IF Falsy(Get(stats, label)) THEN Put(stats, label, Num(0))
                   ELSE stats
         IN Put(s1, label, Plus(Get(s1, label), pop))
    [] OTHER -> Put(stats, label, Plus(Get(stats, label), pop))

\* the clipped record of one candidate: <<>> when skipped, else <<graphic>>
clipFeature(v, r, i, ring, fid) ==
  LET feature == census[fid]
      area == clippedArea(feature, ring)
      originalAcres == feature.ACRES
      clippedAcres0 == Num(area)
  IN IF area = 0 THEN <<>>
     ELSE IF skipCandidate(v, clippedAcres0, originalAcres) THEN <<>>
     ELSE LET clippedAcres == clampAcres(v, clippedAcres0, originalAcres)
              ratio == areaRatio(v, clippedAcres, originalAcres)
          IN <<[run |-> r, index |-> i, fid |-> fid,
                ACRES2 |-> clippedAcres, ACRES |-> originalAcres,
                ratio |-> ratio, TOTALPOP |-> feature.TOTALPOP,
                adjPop |-> adjPop(v, ratio, feature.TOTALPOP),
                label |-> ringLabel(v, i)]>>

\* censusLayer.queryFeatures(query).features, in the order of the layer
RECURSIVE queryFeatures(_, _)
queryFeatures(ring, n) ==
  IF n = 0 THEN <<>>
  ELSE queryFeatures(ring, n - 1) \o
         (IF Intersects(census[n], ring) THEN <<n>> ELSE <<>>)

\* results.features.forEach(...): the graphics created, in order
RECURSIVE forEachGraphics(_, _, _, _, _)
forEachGraphics(v, r, i, ring, fids) ==
  IF fids = <<>> THEN <<>>
  ELSE clipFeature(v, r, i, ring, Head(fids)) \o
         forEachGraphics(v, r, i, ring, Tail(fids))

\* results.features.forEach(...): summaryStats after the callbacks
RECURSIVE forEachStats(_, _, _)
forEachStats(v, stats, graphics) ==
  IF graphics = <<>> THEN stats
  ELSE forEachStats(v,
         accumulate(v, stats, Head(graphics).label, Head(graphics).adjPop),
         Tail(graphics))

SeqToSet(s) == {s[k] : k \in DOMAIN s}

(***************************************************************************)
(* Widget state (React.useState) and the runs of processBuffer.            *)
(***************************************************************************)
null == "null"

\* reportOf is a history field: the run whose summaryStats the state holds
InitialState ==
  [jimuMapView |-> FALSE, latitude |-> "", longitude |-> "", siteName |-> "",
   errorMessage |-> null, isLoading |-> FALSE, selectedCensusYear |-> "2010",
   summaryStats |-> [k \in {} |-> Num(0)], reportOf |-> 0]

\* React.useState of part_002, part_005 and the second widget of part_004
InitialStateCumulative ==
  [jimuMapView |-> FALSE, latitude |-> "", longitude |-> "", siteName |-> "",
   errorMessage |-> null, isLoading |-> FALSE, bufferResults |-> <<>>]

\* part_007 keeps no React state: `view` is assigned when the widget mounts
InitialStateClick == [view |-> TRUE]

\* the six useState hooks of part_009
InitialStateSite ==
  [clickedPoint |-> null, state |-> null, county |-> null, city |-> null,
   latitude |-> null, longitude |-> null]

\* the six useState hooks of ReportWidget
InitialStateReport ==
  [selectedFeature |-> null, populationData |-> <<>>, locationData |-> null,
   jurisdictionData |-> null, contactCanada |-> null, floodZone |-> null]

LatitudeInputs == {"10", "95"}
LongitudeInputs == {"20"}
SiteNameInputs == {"A"}

\* parseFloat of the strings the model types into the boxes
parseFloat(s) ==
  CASE s = "10" -> Num(10)
    [] s = "20" -> Num(20)
    [] s = "95" -> Num(95)
    [] OTHER -> NaN

\* s.trim()
trim(s) == IF s = " " THEN "" ELSE s

\* a run of processPoint/processBuffer: `state` is the value of the closure
\* variable `state`, fixed when the handler was created.  In the variants
\* that add every graphic to the layer at once, featuresToAdd lists the
\* graphics the run has created.  History fields: queried lists the ring
\* positions for which queryFeatures was called, failed names the call whose
\* exception or rejection ended the run, calls lists the calls to the
\* projection engine, the geometry engine and the census layer made by the
\* widgets that do not loop over rings.
IdleRun ==
  [pc |-> "idle", result |-> "none", state |-> InitialState, index |-> 0,
   summaryStats |-> [k \in {} |-> Num(0)], featuresToAdd |-> <<>>,
   allBufferGeometries |-> <<>>, toDelete |-> {}, queried |-> <<>>,
   failed |-> "none", calls |-> <<>>]

\* a record with the fields of `extra` added or replaced
Extend(rec, extra) ==
  [k \in DOMAIN rec \cup DOMAIN extra |->
     IF k \in DOMAIN extra THEN extra[k] ELSE rec[k]]

\* the map view of part_009: the handles of the click listeners that are
\* registered.  History fields: the number of listeners registered so far
\* and the number of clicks on the map.
NoListeners == [listeners |-> {}, registered |-> 0, clicks |-> 0]

(***************************************************************************)
(* Initial states: the widget after construction, in one of the bounded    *)
(* environments below.  An environment is the census layer, the distances  *)
(* at which the geometry engine degenerates, and the number of times the   *)
(* user presses Process.                                                   *)
(***************************************************************************)
AcresValues ==
  {undefined, NaN, Num(0), Num(0 - 1)} \cup {Num(a) : a \in 1..MaxArea}
PopValues == {undefined} \cup {Num(p) : p \in 0..MaxPop}

\* polygons inside one zone, and polygons split between two adjacent zones
GeomSpace ==
  {[z \in Zones |-> IF z = c THEN a ELSE 0] : c \in 1..MaxZone, a \in 1..MaxArea}
  \cup
  {[z \in Zones |-> IF z = c \/ z = c + 1 THEN 1 ELSE 0] : c \in 1..(MaxZone - 1)}

\* every polygon with every kind of attribute value
FeatureSpace ==
  {[geom |-> g, ACRES |-> a, TOTALPOP |-> p] :
     g \in GeomSpace, a \in AcresValues, p \in PopValues}

\* polygons with numeric attributes, used where several polygons are combined
CoreFeatureSpace ==
  {[geom |-> g, ACRES |-> Num(a), TOTALPOP |-> Num(p)] :
     g \in GeomSpace, a \in 0..MaxArea, p \in 1..MaxPop}

\* polygons whose ACRES attribute is the area of their geometry
ConsistentFeatureSpace ==
  {f \in CoreFeatureSpace : f.ACRES = Num(SumArea(f.geom, Zones))}

NoDegenerate == [op |-> "none", d |-> 0]

DegenerateSpace ==
  {[op |-> o, d |-> ZoneOuter[z]] :
     o \in {"buffer", "difference"}, z \in 1..MaxZone}

Environment(c, g, k) == [census |-> c, degenerate |-> g, clicks |-> k]

\* one run over one arbitrary polygon, over several polygons, or with a
\* degenerate buffer or difference
DataEnvironments ==
  {Environment(<<f>>, NoDegenerate, 1) : f \in FeatureSpace}
  \cup
  {Environment(c, NoDegenerate, 1) :
     c \in UNION {[1..n -> CoreFeatureSpace] : n \in 2..MaxFeatures}}
  \cup
  {Environment(<<f>>, g, 1) : f \in CoreFeatureSpace, g \in DegenerateSpace}

\* up to MaxRuns overlapping runs over one polygon
ConcurrentEnvironments ==
  {Environment(<<f>>, NoDegenerate, MaxRuns) : f \in ConsistentFeatureSpace}

\* the largest buffer of part_002/005 over no polygon, over one polygon, and
\* with a buffer that degenerates
CumulativeEnvironments ==
  {Environment(<<>>, NoDegenerate, 1)}
  \cup
  {Environment(<<f>>, g, 1) :
     f \in ConsistentFeatureSpace,
     g \in {NoDegenerate} \cup {x \in DegenerateSpace : x.op = "buffer"}}

\* part_007: geodesicArea(feature.geometry) is carried in ACRES.  It is the
\* area of the geometry, negative when the rings of the polygon are reversed.
ClickFeatureSpace ==
  {[geom |-> g, ACRES |-> Num(sign * SumArea(g, Zones)), TOTALPOP |-> p] :
     g \in GeomSpace, sign \in {1, 0 - 1}, p \in PopValues}

ClickEnvironments ==
  {Environment(<<f>>, g, 1) :
     f \in ClickFeatureSpace,
     g \in {NoDegenerate} \cup {x \in DegenerateSpace : x.op = "buffer"}}
  \cup
  {Environment(<<f1, f2>>, NoDegenerate, 1) :
     f1 \in ClickFeatureSpace, f2 \in ConsistentFeatureSpace}

\* part_009 reads no layer; its click handlers are created by the clicks
SiteEnvironments == {Environment(<<>>, NoDegenerate, 0)}

\* the population service of ReportWidget: no feature, or one feature with
\* any DAYPOP and NIGHTPOP
ReportFeatureSpace ==
  {[geom |-> g, DAYPOP |-> p, NIGHTPOP |-> q] :
     g \in GeomSpace, p \in PopValues, q \in PopValues}

ReportEnvironments ==
  {Environment(<<>>, NoDegenerate, 1)}
  \cup
  {Environment(<<f>>, NoDegenerate, 1) : f \in ReportFeatureSpace}

Environments(v) ==
  CASE v = "main" -> DataEnvironments \cup ConcurrentEnvironments
    [] v \in RingVariants -> DataEnvironments
    [] v \in CumulativeVariants -> CumulativeEnvironments
    [] v = "p009" -> SiteEnvironments
    [] v = "report" -> ReportEnvironments
    [] OTHER -> ClickEnvironments

\* props.config of the widgets that read their distances from it
NoConfig == [set |-> FALSE, bufferDistances |-> <<>>]
ConfigSpace(v) ==
  IF v \in CumulativeVariants
  THEN {NoConfig} \cup
       {[set |-> TRUE, bufferDistances |-> d] :
          d \in {<<>>} \cup {<<ZoneOuter[1], ZoneOuter[MaxZone]>>}}
  ELSE {NoConfig}

InitialStateOf(v) ==
  CASE v \in RingVariants -> InitialState
    [] v \in CumulativeVariants -> InitialStateCumulative
    [] v = "p009" -> InitialStateSite
    [] v = "report" -> InitialStateReport
    [] OTHER -> InitialStateClick

Init ==
  /\ variant \in Variants
  /\ config \in ConfigSpace(variant)
  /\ \E env \in Environments(variant) :
       /\ census = env.census
       /\ degenerate = env.degenerate
       /\ runs = [r \in 1..env.clicks |-> IdleRun]
  /\ state = InitialStateOf(variant)
  /\ bufferLayer = [exists |-> FALSE, graphics |-> {}]
  /\ consoleLog = [run |-> 0, summaryStats |-> [k \in {} |-> Num(0)]]
  /\ eventsLeft = MaxEvents
  /\ mapView = NoListeners

(***************************************************************************)
(* processBuffer, cut at its awaits.  The operators below compute what the *)
(* code does from one await to the next: eff.run is the run afterwards,    *)
(* eff.state the widget state, eff.layer the buffer layer, eff.log the     *)
(* last summary written with console.log.                                  *)
(***************************************************************************)
Effect(run, st, layer, log) ==
  [run |-> run, state |-> st, layer |-> layer, log |-> log]

\* setState({ ...state, errorMessage: msg, isLoading: false }); return
ReturnError(run, msg, layer, log) ==
  Effect([run EXCEPT !.pc = "done", !.result = "error"],
         [run.state EXCEPT !.errorMessage = msg, !.isLoading = FALSE],
         layer, log)

\* an exception or rejected promise leaves processBuffer: nothing is caught
Reject(run, call, st, layer, log) ==
  Effect([run EXCEPT !.pc = "done", !.result = "rejected", !.failed = call],
         st, layer, log)

\* the final setState (and console.log) of processBuffer
publish(v, r, run, layer, log) ==
  LET done == [run EXCEPT !.pc = "done", !.result = "published"]
      report == [run |-> r, summaryStats |-> run.summaryStats]
  IN CASE v = "p000" ->
            Effect(done, [run.state EXCEPT !.isLoading = FALSE], layer, report)
       [] v = "p004" ->
            Effect(done,
                   [run.state EXCEPT !.isLoading = FALSE,
                                     !.summaryStats = run.summaryStats,
                                     !.reportOf = r],
                   layer, report)
       [] OTHER ->
            Effect(done,
                   [run.state EXCEPT !.isLoading = FALSE,
                                     !.summaryStats = run.summaryStats,
                                     !.reportOf = r],
                   layer, log)

\* the code after the ring loop, up to its next await
afterLoop(v, r, run, st, layer, log) ==
  IF v = "main"
  THEN Effect([run EXCEPT !.pc = "add"], st, layer, log)
  ELSE publish(v, r, run, layer, log)

\* the graphic of the ring itself, which part_001 adds to the buffer layer
bufferGraphic(v, r, i) ==
  [run |-> r, index |-> i, fid |-> 0, ACRES2 |-> undefined,
   ACRES |-> undefined, ratio |-> RatioNaN, TOTALPOP |-> undefined,
   adjPop |-> undefined, label |-> ringLabel(v, i)]

\* the ring loop with the summary published as soon as the next query is
\* issued, without waiting for it
ringLoopPublishEarly(v, r, run, st, layer, log, i) ==
  LET D == BUFFER_DISTANCES_MILES(v)
      built == {j \in i..Len(D) : ringBuffer(v, j) # NoGeometry}
  IN IF built = {} THEN afterLoop(v, r, run, st, layer, log)
     ELSE LET j == CHOOSE x \in built : \A y \in built : x <= y
          IN Effect([run EXCEPT !.pc = "query", !.index = j,
                                !.queried = Append(@, j),
                                !.result = "published"],
                    [run.state EXCEPT !.isLoading = FALSE,
                                      !.summaryStats = run.summaryStats,
                                      !.reportOf = r],
                    layer, log)

\* the ring loop from position i up to the await of queryFeatures
ringLoop(v, r, run, st, layer, log, i) ==
  LET D == BUFFER_DISTANCES_MILES(v)
      built == {j \in i..Len(D) : ringBuffer(v, j) # NoGeometry}
  IN IF built = {} THEN afterLoop(v, r, run, st, layer, log)
     ELSE LET j == CHOOSE x \in built : \A y \in built : x <= y
              pushed == IF v \in {"main", "p001", "p006"}
                        THEN Append(run.allBufferGeometries, ringBuffer(v, j))
                        ELSE run.allBufferGeometries
          IN IF v = "p001"
             \* censusLayer is a GraphicsLayer here: createQuery is no function
             THEN Reject([run EXCEPT !.index = j, !.allBufferGeometries = pushed],
                         "createQuery", st,
                         [layer EXCEPT !.graphics = @ \cup {bufferGraphic(v, r, j)}],
                         log)
             ELSE Effect([run EXCEPT !.pc = "query", !.index = j,
                                     !.allBufferGeometries = pushed,
                                     !.queried = Append(@, j)],
                         st, layer, log)

\* part_001 queries the graphics layer "census-layer", which it empties
\* before the ring loop: censusLayer.removeAll()
removeAll(eff) ==
  [k \in DOMAIN eff \cup {"census"} |-> IF k = "census" THEN <<>> ELSE eff[k]]

\* the lookup of the census layer with the ring loop adding to the summary
\* the widget state holds, in place of a fresh one
findCensusLayerKeepStats(v, r, run, st, layer, log, found) ==
  IF v # "p001" /\ ~found
  THEN ReturnError(run, "Census layer not found.", layer, log)
  ELSE ringLoop(v, r, [run EXCEPT !.summaryStats = st.summaryStats],
                st, layer, log, FirstIndex(v))

\* the lookup of the census layer and the start of the ring loop
findCensusLayer(v, r, run, st, layer, log, found) ==
  IF v # "p001" /\ ~found
  THEN ReturnError(run,
         IF v = "main"
         THEN "Census layer not found. Ensure 'CensusBlocks2010' is added to the map."
         ELSE "Census layer not found.",
         layer, log)
  ELSE IF v = "p001"
  THEN removeAll(ringLoop(v, r,
                   [run EXCEPT !.summaryStats = InitialSummaryStats(v)],
                   st, layer, log, FirstIndex(v)))
  ELSE ringLoop(v, r, [run EXCEPT !.summaryStats = InitialSummaryStats(v)],
                st, layer, log, FirstIndex(v))

Apply(r, eff) ==
  /\ runs' = [runs EXCEPT ![r] = eff.run]
  /\ state' = eff.state
  /\ bufferLayer' = eff.layer
  /\ consoleLog' = eff.log
  /\ census' = IF "census" \in DOMAIN eff THEN eff.census ELSE census
  /\ UNCHANGED <<variant, config, degenerate, mapView, eventsLeft>>

(***************************************************************************)
(* Events of the host and of the user.                                     *)
(***************************************************************************)
activeViewChangeHandler(jmv) ==
  /\ variant \in FormVariants
  /\ eventsLeft > 0
  /\ eventsLeft' = eventsLeft - 1
  /\ state' = IF ~jmv
              THEN [state EXCEPT !.errorMessage =
                      "No map view available. Check Map widget linkage."]
              ELSE [state EXCEPT !.jimuMapView = TRUE]
  /\ UNCHANGED <<variant, config, census, degenerate, mapView, runs, bufferLayer, consoleLog>>

onChange(field, value) ==
  /\ variant \in FormVariants
  /\ eventsLeft > 0
  /\ eventsLeft' = eventsLeft - 1
  /\ state' = [state EXCEPT ![field] = value]
  /\ UNCHANGED <<variant, config, census, degenerate, mapView, runs, bufferLayer, consoleLog>>

onChangeSiteName == \E s \in SiteNameInputs : onChange("siteName", s)
onChangeLatitude == \E s \in LatitudeInputs : onChange("latitude", s)
onChangeLongitude == \E s \in LongitudeInputs : onChange("longitude", s)

\* the click on Process: processPoint and processBuffer up to the first await
processPoint(r) ==
  /\ variant \in RingVariants
  /\ runs[r].pc = "idle"
  /\ IF r = 1 THEN TRUE ELSE runs[r - 1].pc # "idle"
  /\ UNCHANGED <<variant, config, census, degenerate, mapView, bufferLayer, consoleLog, eventsLeft>>
  /\ LET lat == parseFloat(state.latitude)
         lon == parseFloat(state.longitude)
     IN IF trim(state.latitude) = "" \/ trim(state.longitude) = ""
           \/ trim(state.siteName) = ""
        THEN /\ state' = [state EXCEPT !.errorMessage =
                            "Enter Latitude, Longitude, and Site Name."]
             /\ UNCHANGED runs
        ELSE IF isNaN(lat) \/ isNaN(lon) \/ lat.v < 0 - 90 \/ lat.v > 90
                \/ lon.v < 0 - 180 \/ lon.v > 180
        THEN /\ state' = [state EXCEPT !.errorMessage = "Invalid coordinates."]
             /\ UNCHANGED runs
        ELSE IF ~state.jimuMapView
        THEN /\ state' = [state EXCEPT !.errorMessage = "Map view not loaded."]
             /\ UNCHANGED runs
        ELSE /\ state' = [state EXCEPT !.isLoading = TRUE, !.errorMessage = null]
             /\ runs' = [runs EXCEPT ![r] =
                           [IdleRun EXCEPT !.pc = "load", !.state = state]]

(***************************************************************************)
(* Resumptions of processBuffer.                                           *)
(***************************************************************************)
\* await projection.load() settles
projectionLoad(r) ==
  /\ runs[r].pc = "load"
  /\ \E loaded \in BOOLEAN, projected \in BOOLEAN, found \in BOOLEAN :
       LET run == runs[r]
           created == [bufferLayer EXCEPT !.exists = TRUE]
       IN Apply(r,
            IF ~loaded
            THEN Reject(run, "projection.load", state, bufferLayer, consoleLog)
            ELSE IF ~projected
            THEN ReturnError(run, "Projection failed.", bufferLayer, consoleLog)
            ELSE IF variant = "main"
            THEN IF bufferLayer.exists
                 THEN Effect([run EXCEPT !.pc = "clear",
                                         !.toDelete = bufferLayer.graphics],
                             state, bufferLayer, consoleLog)
                 ELSE findCensusLayer(variant, r, run, state, created,
                                      consoleLog, found)
            ELSE findCensusLayer(variant, r, run, state,
                                 [created EXCEPT !.graphics = {}],
                                 consoleLog, found))

\* await bufferLayer.applyEdits({ deleteFeatures }) settles
applyEditsDelete(r) ==
  /\ runs[r].pc = "clear"
  /\ \E ok \in BOOLEAN, found \in BOOLEAN :
       LET run == runs[r]
       IN Apply(r,
            IF ~ok
            THEN Reject(run, "applyEdits", state, bufferLayer, consoleLog)
            ELSE findCensusLayer(variant, r, run, state,
                   [bufferLayer EXCEPT !.graphics = @ \ run.toDelete],
                   consoleLog, found))

\* await censusLayer.queryFeatures(query) settles
queryFeaturesSettled(r) ==
  /\ runs[r].pc = "query"
  /\ \E ok \in BOOLEAN :
       LET run == runs[r]
           i == run.index
           ring == ringBuffer(variant, i)
           graphics == forEachGraphics(variant, r, i, ring,
                                       queryFeatures(ring, Len(census)))
           after == [run EXCEPT
                       !.summaryStats = forEachStats(variant, @, graphics),
                       !.featuresToAdd = @ \o graphics]
           layer == IF variant = "main" THEN bufferLayer
                    ELSE [bufferLayer EXCEPT
                            !.graphics = @ \cup SeqToSet(graphics)]
       IN Apply(r,
            IF ~ok
            THEN Reject(run, "queryFeatures", state, bufferLayer, consoleLog)
            ELSE ringLoop(variant, r, after, state, layer, consoleLog, i + 1))

\* await bufferLayer.applyEdits({ addFeatures: featuresToAdd }) settles
applyEditsAdd(r) ==
  /\ runs[r].pc = "add"
  /\ \E ok \in BOOLEAN :
       LET run == runs[r]
       IN Apply(r,
            IF ~ok
            THEN Reject(run, "applyEdits", state, bufferLayer, consoleLog)
            ELSE publish(variant, r, run,
                   [bufferLayer EXCEPT
                      !.graphics = @ \cup SeqToSet(run.featuresToAdd)],
                   consoleLog))

(***************************************************************************)
(* part_002, part_005 and the second widget of part_004: one query over    *)
(* the largest buffer.  The distances come from props.config.              *)
(***************************************************************************)
\* props.config?.bufferDistances || [0.25, 0.5, 1, 2, 3, 4]: [] is truthy
bufferDistances ==
  IF config.set THEN config.bufferDistances ELSE <<1, 2, 4, 8, 12, 16>>

\* setState({ ...state, errorMessage: msg, isLoading: false }); return
errorReturn(r, run, msg, calls) ==
  /\ runs' = [runs EXCEPT ![r] = [run EXCEPT !.pc = "done", !.result = "error",
                                             !.calls = calls]]
  /\ state' = [run.state EXCEPT !.errorMessage = msg, !.isLoading = FALSE]

\* processPoint(point) up to `await projection.load()`
processPointCumulative(r) ==
  IF ~state.jimuMapView
  THEN /\ state' = [state EXCEPT !.errorMessage =
                      "Map view not loaded. Add a Map widget."]
       /\ UNCHANGED runs
  ELSE IF trim(state.siteName) = ""
  THEN /\ state' = [state EXCEPT !.errorMessage = "Please enter a site name."]
       /\ UNCHANGED runs
  ELSE \E found \in BOOLEAN :
         IF ~found
         THEN errorReturn(r, [IdleRun EXCEPT !.state = state],
                "Census layer (CensusBlocks2010) not found in the map.", <<>>)
         ELSE /\ state' = [state EXCEPT !.isLoading = TRUE,
                                        !.errorMessage = null]
              /\ runs' = [runs EXCEPT ![r] =
                            [IdleRun EXCEPT !.pc = "loadC", !.state = state,
                                            !.calls = <<"projection.load">>]]

\* the click on "Buffer Coordinates" of part_002 and part_005
handleCoordinateSubmit(r) ==
  /\ variant \in {"p002", "p005"}
  /\ runs[r].pc = "idle"
  /\ ~state.isLoading
  /\ UNCHANGED <<variant, config, census, degenerate, mapView, bufferLayer, consoleLog,
                 eventsLeft>>
  /\ LET lat == parseFloat(state.latitude)
         lon == parseFloat(state.longitude)
     IN IF trim(state.latitude) = "" \/ trim(state.longitude) = ""
        THEN /\ state' = [state EXCEPT !.errorMessage =
                            "Please enter both latitude and longitude."]
             /\ UNCHANGED runs
        ELSE IF isNaN(lat) \/ isNaN(lon) \/ lat.v < 0 - 90 \/ lat.v > 90
                \/ lon.v < 0 - 180 \/ lon.v > 180
        THEN /\ state' = [state EXCEPT !.errorMessage =
               "Invalid coordinates. Latitude: -90 to 90, Longitude: -180 to 180."]
             /\ UNCHANGED runs
        ELSE processPointCumulative(r)

\* the click on "Buffer Coordinates" of the second widget of part_004:
\* onClick={() => processPoint(new Point({ latitude: parseFloat(...), ... }))}
onClickBufferCoordinates(r) ==
  /\ variant = "p004b"
  /\ runs[r].pc = "idle"
  /\ ~state.isLoading
  /\ UNCHANGED <<variant, config, census, degenerate, mapView, bufferLayer, consoleLog,
                 eventsLeft>>
  /\ processPointCumulative(r)

\* bufferDistances.map(buffer).filter(...): the buffers that are not null
RECURSIVE createBuffers(_)
createBuffers(distances) ==
  IF distances = <<>> THEN <<>>
  ELSE (IF buffer(Head(distances)) = NoGeometry THEN <<>>
        ELSE <<buffer(Head(distances))>>) \o createBuffers(Tail(distances))

\* one "buffer" per distance, for the list of calls
bufferCalls(distances) == [k \in DOMAIN distances |-> "buffer"]

\* await projection.load() settles: projection and buffering, up to the query
projectionLoadCumulative(r) ==
  /\ runs[r].pc = "loadC"
  /\ UNCHANGED <<variant, config, census, degenerate, mapView, bufferLayer, consoleLog,
                 eventsLeft>>
  /\ \E loaded \in BOOLEAN, projected \in {"point", "null", "throws"} :
       LET run == runs[r]
           buffers == createBuffers(bufferDistances)
           calls == run.calls \o <<"project">> \o bufferCalls(bufferDistances)
       IN IF ~loaded
          THEN errorReturn(r, run, "Error processing data: load", run.calls)
          ELSE IF projected = "throws"
          THEN errorReturn(r, run,
                 "Failed to project point to map spatial reference.",
                 run.calls \o <<"project">>)
          ELSE IF projected = "null"
          THEN errorReturn(r, run,
                 IF variant = "p004b"
                 THEN "Failed to project point to map spatial reference."
                 ELSE "Error processing data: Projected point is invalid or missing spatial reference.",
                 run.calls \o <<"project">>)
          ELSE IF buffers = <<>>
          THEN errorReturn(r, run,
                 "Error processing data: No valid buffers were created.", calls)
          ELSE /\ runs' = [runs EXCEPT ![r] =
                             [run EXCEPT !.pc = "queryC",
                                         !.allBufferGeometries = buffers,
                                         !.calls = calls \o <<"queryFeatures">>]]
               /\ UNCHANGED state

\* clippedFeatures.reduce((sum, feature) => sum + (feature.attributes[attr] || 0), 0)
RECURSIVE reduceSum(_, _)
reduceSum(fids, attr) ==
  IF fids = <<>> THEN 0
  ELSE OrZero(census[Head(fids)][attr]).v + reduceSum(Tail(fids), attr)

\* bufferDistances.map((distance, index) => ...): one row per distance
bufferResults(features, buffers) ==
  [i \in DOMAIN bufferDistances |->
     LET clippedFeatures ==
           SelectSeq(features,
             LAMBDA fid : i <= Len(buffers) /\ Intersects(census[fid], buffers[i]))
         totalPop == reduceSum(clippedFeatures, "TOTALPOP")
         totalAcres == reduceSum(clippedFeatures, "ACRES")
     IN [Distance |-> bufferDistances[i], Features |-> Len(clippedFeatures),
         Population |-> totalPop, Clip_Pop |-> totalPop,
         Clip_Area |-> totalAcres,
         POP_DEN |-> IF totalPop > 0 /\ totalAcres > 0
                     THEN Ratio(totalPop, totalAcres) ELSE Ratio(0, 1)]]

\* await censusLayer.queryFeatures(query) settles
queryFeaturesCumulative(r) ==
  /\ runs[r].pc = "queryC"
  /\ UNCHANGED <<variant, config, census, degenerate, mapView, bufferLayer, consoleLog,
                 eventsLeft>>
  /\ \E ok \in BOOLEAN :
       LET run == runs[r]
           buffers == run.allBufferGeometries
           features == queryFeatures(buffers[Len(buffers)], Len(census))
       IN IF ~ok
          THEN errorReturn(r, run, "Error processing data: query", run.calls)
          ELSE IF features = <<>>
          THEN errorReturn(r, run,
                 "No census features found within the largest buffer.",
                 run.calls)
          ELSE /\ runs' = [runs EXCEPT ![r] =
                             [run EXCEPT !.pc = "done", !.result = "published"]]
               /\ state' = IF variant = "p004b"
                           THEN [run.state EXCEPT !.isLoading = FALSE,
                                                  !.errorMessage = null]
                           ELSE [run.state EXCEPT
                                   !.isLoading = FALSE, !.errorMessage = null,
                                   !.bufferResults =
                                      bufferResults(features, buffers)]

(***************************************************************************)
(* part_007, CensusBufferWidget: a click on a feature buffers it, clips    *)
(* the census layer with the buffer and rescales the population.           *)
(***************************************************************************)
\* x / y for any two numbers: the sign is kept in the numerator
DivideAny(x, y) ==
  IF ~IsNum(x) \/ ~IsNum(y) THEN RatioNaN
  ELSE IF y.v > 0 THEN Ratio(x.v, y.v)
  ELSE IF y.v < 0 THEN Ratio(0 - x.v, 0 - y.v)
  ELSE IF x.v = 0 THEN RatioNaN
  ELSE [t |-> "inf", n |-> x.v, d |-> 1]

\* p * ratio, not rounded
Times(p, ratio) ==
  IF ~IsNum(p) \/ ratio.t = "nan" THEN RatioNaN
  ELSE IF ratio.t = "inf"
  THEN (IF p.v = 0 THEN RatioNaN ELSE [ratio EXCEPT !.n = @ * p.v])
  ELSE Ratio(p.v * ratio.n, ratio.d)

\* geometryEngine.buffer(geometry, bufferDistance, unit) of processFeature
bufferGeometry == buffer(ZoneOuter[1])

\* clipCensusLayer's map/filter and recalculateStatistics for one feature
recalculateFeature(r, fid) ==
  LET feature == census[fid]
      clipped == clippedArea(feature, bufferGeometry)
      originalArea == feature.ACRES
      proportion == DivideAny(Num(clipped), originalArea)
  IN IF clipped = 0 THEN <<>>
     ELSE <<[run |-> r, index |-> 1, fid |-> fid,
             ACRES2 |-> Num(clipped), ACRES |-> originalArea,
             ratio |-> proportion, TOTALPOP |-> feature.TOTALPOP,
             adjPop |-> Times(feature.TOTALPOP, proportion),
             label |-> "population"]>>

RECURSIVE recalculateStatistics(_, _)
recalculateStatistics(r, fids) ==
  IF fids = <<>> THEN <<>>
  ELSE recalculateFeature(r, Head(fids)) \o recalculateStatistics(r, Tail(fids))

\* view.on('click'): view.hitTest(event) is called
viewClick(r) ==
  /\ variant = "p007"
  /\ runs[r].pc = "idle"
  /\ runs' = [runs EXCEPT ![r] = [IdleRun EXCEPT !.pc = "hitTest",
                                                 !.calls = <<"hitTest">>]]
  /\ UNCHANGED <<variant, config, census, degenerate, mapView, state, bufferLayer,
                 consoleLog, eventsLeft>>

\* view.hitTest(event).then(...): processFeature and clipCensusLayer
hitTestThen(r) ==
  /\ runs[r].pc = "hitTest"
  /\ UNCHANGED <<variant, config, census, degenerate, mapView, state, bufferLayer,
                 consoleLog, eventsLeft>>
  /\ \E ok \in BOOLEAN, hit \in BOOLEAN :
       LET run == runs[r]
       IN runs' = [runs EXCEPT ![r] =
            IF ~ok
            THEN [run EXCEPT !.pc = "done", !.result = "rejected",
                             !.failed = "hitTest"]
            ELSE IF ~hit
            THEN [run EXCEPT !.pc = "done", !.result = "No feature selected."]
            ELSE IF bufferGeometry = NoGeometry
            THEN [run EXCEPT !.pc = "done", !.result = "error",
                             !.calls = @ \o <<"buffer">>]
            ELSE [run EXCEPT !.pc = "query7", !.queried = <<1>>,
                             !.calls = @ \o <<"buffer", "queryFeatures">>]]

\* censusLayer.queryFeatures(...).then(...).catch(...)
queryFeaturesThen(r) ==
  /\ runs[r].pc = "query7"
  /\ UNCHANGED <<variant, config, census, degenerate, mapView, state, consoleLog,
                 eventsLeft>>
  /\ \E ok \in BOOLEAN :
       LET run == runs[r]
           updatedFeatures ==
             recalculateStatistics(r, queryFeatures(bufferGeometry, Len(census)))
       IN IF ~ok
          THEN /\ runs' = [runs EXCEPT ![r] =
                             [run EXCEPT !.pc = "done", !.result = "error"]]
               /\ UNCHANGED bufferLayer
          ELSE /\ runs' = [runs EXCEPT ![r] =
                             [run EXCEPT !.pc = "done", !.result = "published",
                                         !.featuresToAdd = updatedFeatures]]
               /\ bufferLayer' = [exists |-> TRUE,
                                  graphics |-> bufferLayer.graphics
                                                 \cup SeqToSet(updatedFeatures)]

(***************************************************************************)
(* part_009: handleMapClick is the onActiveViewChange handler.  It         *)
(* registers a click listener on the map view; the listener queries the    *)
(* municipality of the clicked point and removes itself.                   *)
(***************************************************************************)
\* event.mapPoint of the clicks: the places clicked, and their coordinates
\* in ten-thousandths of a degree
MapPoints == {"A", "B"}

mapPoint(p) ==
  IF p = "A" THEN [latitude |-> 101234, longitude |-> 205678]
  ELSE [latitude |-> 450005, longitude |-> 900000]

Pad3(n) ==
  IF n < 10 THEN "00" \o NatToString(n)
  ELSE IF n < 100 THEN "0" \o NatToString(n)
  ELSE NatToString(n)

\* x.toFixed(3) of a coordinate given in ten-thousandths
toFixed(x) ==
  LET t == (x + 5) \div 10
  IN NatToString(t \div 1000) \o "." \o Pad3(t % 1000)

\* one invocation of the click listener with handle l
SiteRun(l, p) ==
  Extend([IdleRun EXCEPT !.pc = "attributes", !.calls = <<"execute">>],
         [listener |-> l, mapPoint |-> p])

\* handleMapClick(jimuMapView): a missing view is a TypeError, caught and
\* logged; `await jimuMapView.view` awaits a plain value
handleMapClick(jmv) ==
  /\ variant = "p009"
  /\ eventsLeft > 0
  /\ eventsLeft' = eventsLeft - 1
  /\ mapView' = IF ~jmv THEN mapView
                ELSE [mapView EXCEPT !.listeners = @ \cup {mapView.registered + 1},
                                     !.registered = @ + 1]
  /\ UNCHANGED <<variant, config, census, degenerate, state, runs, bufferLayer,
                 consoleLog>>

\* the listeners called for one click, in the order of their registration
RECURSIVE clickHandlers(_, _)
clickHandlers(ls, p) ==
  IF ls = {} THEN <<>>
  ELSE LET l == CHOOSE x \in ls : \A y \in ls : x <= y
       IN <<SiteRun(l, p)>> \o clickHandlers(ls \ {l}, p)

\* a click on the map: every registered listener runs up to its await
mapViewOnClick ==
  \E p \in MapPoints :
    /\ variant = "p009"
    /\ eventsLeft > 0
    /\ eventsLeft' = eventsLeft - 1
    /\ mapView' = [mapView EXCEPT !.clicks = @ + 1]
    /\ runs' = runs \o clickHandlers(mapView.listeners, p)
    /\ state' = IF mapView.listeners = {} THEN state
                ELSE [state EXCEPT !.clickedPoint = p]
    /\ UNCHANGED <<variant, config, census, degenerate, bufferLayer, consoleLog>>

\* what queryTask.execute(query) gives: a rejection (or the exception of a
\* QueryTask that is not loaded), or the features found at the point
ExecuteResults ==
  {[ok |-> FALSE, features |-> <<>>]} \cup
  {[ok |-> TRUE, features |-> f] :
     f \in {<<>>, <<[STATE |-> "", COUNTY |-> "", NAME |-> ""]>>,
            <<[STATE |-> "VT", COUNTY |-> "Lamoille", NAME |-> "Stowe"]>>}}

\* x || d for strings
OrElse(x, d) == IF x = "" THEN d ELSE x

queryAttributesFromFeatureServices(result) ==
  IF ~result.ok
  THEN [state |-> "Error", county |-> "Error", city |-> "Error"]
  ELSE IF Len(result.features) > 0
  THEN [state |-> OrElse(result.features[1].STATE, "State not found"),
        county |-> OrElse(result.features[1].COUNTY, "County not found"),
        city |-> OrElse(result.features[1].NAME, "City not found")]
  ELSE [state |-> "State not found", county |-> "County not found",
        city |-> "City not found"]

\* await queryAttributesFromFeatureServices(...) settles: the rest of the
\* click listener, which ends with clickHandler.remove()
clickListenerResumed(r) ==
  /\ variant = "p009"
  /\ runs[r].pc = "attributes"
  /\ \E result \in ExecuteResults :
       LET run == runs[r]
           found == queryAttributesFromFeatureServices(result)
       IN /\ state' = [state EXCEPT
                         !.state = found.state, !.county = found.county,
                         !.city = found.city,
                         !.latitude = toFixed(mapPoint(run.mapPoint).latitude),
                         !.longitude = toFixed(mapPoint(run.mapPoint).longitude)]
          /\ mapView' = [mapView EXCEPT !.listeners = @ \ {run.listener}]
          /\ runs' = [runs EXCEPT ![r] = [run EXCEPT !.pc = "done",
                                                     !.result = "handled"]]
  /\ UNCHANGED <<variant, config, census, degenerate, bufferLayer, consoleLog,
                 eventsLeft>>

(***************************************************************************)
(* src/widget.tsx, ReportWidget: a click on a feature starts the           *)
(* population query and four queries about the clicked point.  The awaits  *)
(* inside one of the four queries touch no state and are taken together.   *)
(***************************************************************************)
\* const distances = [0.25, 0.5, 1], in quarter miles
distances == <<1, 2, 4>>

PointQueries == {"location", "jurisdiction", "canada", "flood"}

\* history fields: hitResults is what the hit test returned, pending the
\* point queries not settled yet, rejected the point queries that rejected
ReportRun ==
  Extend(IdleRun, [hitResults |-> "none", pending |-> {}, rejected |-> {},
                   populationResults |-> <<>>])

\* handleMapClick(evt, mapView): mapView.view.hitTest(evt) is called
handleMapClickReport(r) ==
  /\ variant = "report"
  /\ runs[r].pc = "idle"
  /\ runs' = [runs EXCEPT ![r] = [ReportRun EXCEPT !.pc = "hitTestR",
                                                   !.calls = <<"hitTest">>]]
  /\ UNCHANGED <<variant, config, census, degenerate, mapView, state,
                 bufferLayer, consoleLog, eventsLeft>>

\* .then((response) => ...): response.results[0].graphic throws a TypeError
\* when results is empty, and nothing catches it
hitTestThenReport(r) ==
  /\ variant = "report"
  /\ runs[r].pc = "hitTestR"
  /\ UNCHANGED <<variant, config, census, degenerate, mapView, bufferLayer,
                 consoleLog, eventsLeft>>
  /\ \E response \in {"rejected", "empty", "noGraphic", "feature"} :
       LET run == [runs[r] EXCEPT !.hitResults = response]
       IN CASE response = "rejected" ->
                 /\ runs' = [runs EXCEPT ![r] =
                       [run EXCEPT !.pc = "done", !.result = "rejected",
                                   !.failed = "hitTest"]]
                 /\ UNCHANGED state
            [] response = "empty" ->
                 /\ runs' = [runs EXCEPT ![r] =
                       [run EXCEPT !.pc = "done", !.result = "rejected",
                                   !.failed = "TypeError"]]
                 /\ UNCHANGED state
            [] response = "noGraphic" ->
                 /\ runs' = [runs EXCEPT ![r] =
                       [run EXCEPT !.pc = "done", !.result = "none"]]
                 /\ UNCHANGED state
            [] OTHER ->
                 /\ runs' = [runs EXCEPT ![r] =
                       [run EXCEPT !.pc = "population", !.index = 1,
                                   !.pending = PointQueries,
                                   !.calls = @ \o <<"loadModules">>]]
                 /\ state' = [state EXCEPT !.selectedFeature = "feature"]

\* features.forEach((feature) => { total += feature.attributes[attr] })
RECURSIVE totalPop(_, _)
totalPop(fids, attr) ==
  IF fids = <<>> THEN Num(0)
  ELSE Plus(totalPop(SubSeq(fids, 1, Len(fids) - 1), attr),
            census[fids[Len(fids)]][attr])

\* queryPopulation(mapView, geometry)
queryPopulation(geometry) ==
  LET features == queryFeatures(geometry, Len(census))
  IN [daypop |-> totalPop(features, "DAYPOP"),
      nightpop |-> totalPop(features, "NIGHTPOP")]

\* queryPopulationWithinDistances: one turn of the loop, from the buffer of
\* the distance to the push of its record, and setPopulationData at the end
queryPopulationWithinDistances(r) ==
  /\ variant = "report"
  /\ runs[r].pc = "population"
  /\ UNCHANGED <<variant, config, census, degenerate, mapView, bufferLayer,
                 consoleLog, eventsLeft>>
  /\ \E ok \in BOOLEAN :
       LET run == runs[r]
           distance == distances[run.index]
           population == queryPopulation(buffer(distance))
           populationResults ==
             Append(run.populationResults,
                    [distance |-> distance, population |-> population])
       IN IF ~ok
          THEN /\ runs' = [runs EXCEPT ![r] =
                     [run EXCEPT !.pc = "done", !.result = "rejected",
                                 !.failed = "queryPopulation"]]
               /\ UNCHANGED state
          ELSE IF run.index < Len(distances)
          THEN /\ runs' = [runs EXCEPT ![r] =
                     [run EXCEPT !.index = @ + 1,
                                 !.populationResults = populationResults]]
               /\ UNCHANGED state
          ELSE /\ runs' = [runs EXCEPT ![r] =
                     [run EXCEPT !.pc = "done", !.result = "published",
                                 !.populationResults = populationResults]]
               /\ state' = [state EXCEPT !.populationData = populationResults]

\* one of the four point queries settles: field is the state it sets
pointQuerySettled(r, q, field, ok, value) ==
  /\ variant = "report"
  /\ runs[r].pc # "idle"
  /\ q \in runs[r].pending
  /\ runs' = [runs EXCEPT ![r] =
       [runs[r] EXCEPT !.pending = @ \ {q},
                       !.rejected = IF ok THEN @ ELSE @ \cup {q}]]
  /\ state' = IF ok THEN [state EXCEPT ![field] = value] ELSE state
  /\ UNCHANGED <<variant, config, census, degenerate, mapView, bufferLayer,
                 consoleLog, eventsLeft>>

queryLocationInfo(r) ==
  \E ok \in BOOLEAN, found \in BOOLEAN :
    pointQuerySettled(r, "location", "locationData", ok,
                      IF found THEN "attributes" ELSE null)

queryJurisdictionInfo(r) ==
  \E ok \in BOOLEAN, epa \in BOOLEAN, tribal \in BOOLEAN :
    pointQuerySettled(r, "jurisdiction", "jurisdictionData", ok,
      [epaJurisdiction |-> IF epa THEN "Region 1" ELSE "null",
       tribalJurisdiction |-> IF tribal THEN "Within Tribal Jurisdiction"
                              ELSE "Not within Tribal Jurisdiction"])

checkProximityToCanada(r) ==
  \E ok \in BOOLEAN, found \in BOOLEAN :
    pointQuerySettled(r, "canada", "contactCanada", ok,
                      IF found THEN "Necessary to Contact Canada"
                      ELSE "Not Necessary to Contact Canada")

queryFloodZone(r) ==
  \E ok \in BOOLEAN, found \in BOOLEAN :
    pointQuerySettled(r, "flood", "floodZone", ok,
                      IF found THEN "AE" ELSE null)

\* data.population[key] in the table: undefined for a missing property
Property(obj, key) == IF key \in DOMAIN obj THEN obj[key] ELSE undefined

\* the rows of the population table: reading .daypop of undefined is a
\* TypeError, which ends the render
render(st) ==
  IF \E i \in DOMAIN st.populationData :
       \E key \in {"0.25", "0.5", "1"} :
          key \notin DOMAIN st.populationData[i].population
  THEN "TypeError"
  ELSE "rendered"

Next ==
  \/ \E jmv \in BOOLEAN : activeViewChangeHandler(jmv)
  \/ onChangeSiteName
  \/ onChangeLatitude
  \/ onChangeLongitude
  \/ \E r \in DOMAIN runs : processPoint(r)
  \/ \E r \in DOMAIN runs : projectionLoad(r)
  \/ \E r \in DOMAIN runs : applyEditsDelete(r)
  \/ \E r \in DOMAIN runs : queryFeaturesSettled(r)
  \/ \E r \in DOMAIN runs : applyEditsAdd(r)
  \/ \E r \in DOMAIN runs : handleCoordinateSubmit(r)
  \/ \E r \in DOMAIN runs : onClickBufferCoordinates(r)
  \/ \E r \in DOMAIN runs : projectionLoadCumulative(r)
  \/ \E r \in DOMAIN runs : queryFeaturesCumulative(r)
  \/ \E r \in DOMAIN runs : viewClick(r)
  \/ \E r \in DOMAIN runs : hitTestThen(r)
  \/ \E r \in DOMAIN runs : queryFeaturesThen(r)
  \/ \E jmv \in BOOLEAN : handleMapClick(jmv)
  \/ mapViewOnClick
  \/ \E r \in DOMAIN runs : clickListenerResumed(r)
  \/ \E r \in DOMAIN runs : handleMapClickReport(r)
  \/ \E r \in DOMAIN runs : hitTestThenReport(r)
  \/ \E r \in DOMAIN runs : queryPopulationWithinDistances(r)
  \/ \E r \in DOMAIN runs : queryLocationInfo(r)
  \/ \E r \in DOMAIN runs : queryJurisdictionInfo(r)
  \/ \E r \in DOMAIN runs : checkProximityToCanada(r)
  \/ \E r \in DOMAIN runs : queryFloodZone(r)

Spec == Init /\ [][Next]_vars

(***************************************************************************)
(* The ring widgets main and part_000 under fair scheduling: a promise the *)
(* run awaits is eventually settled (resolved or rejected), while the user *)
(* and the host are free to do nothing.                                    *)
(***************************************************************************)
LiveEnvironments ==
  {Environment(<<f>>, NoDegenerate, MaxRuns) : f \in ConsistentFeatureSpace}

LiveInit ==
  /\ variant \in {"main", "p000"}
  /\ config = NoConfig
  /\ \E env \in LiveEnvironments :
       /\ census = env.census
       /\ degenerate = env.degenerate
       /\ runs = [r \in 1..env.clicks |-> IdleRun]
  /\ state = InitialState
  /\ bufferLayer = [exists |-> FALSE, graphics |-> {}]
  /\ consoleLog = [run |-> 0, summaryStats |-> [k \in {} |-> Num(0)]]
  /\ eventsLeft = MaxEvents
  /\ mapView = NoListeners

\* the awaited promise of some run settles
Resume ==
  \E r \in DOMAIN runs :
    \/ projectionLoad(r)
    \/ applyEditsDelete(r)
    \/ queryFeaturesSettled(r)
    \/ applyEditsAdd(r)

LiveNext ==
  \/ \E jmv \in BOOLEAN : activeViewChangeHandler(jmv)
  \/ onChangeSiteName
  \/ onChangeLatitude
  \/ onChangeLongitude
  \/ \E r \in DOMAIN runs : processPoint(r)
  \/ \E r \in DOMAIN runs : projectionLoad(r)
  \/ \E r \in DOMAIN runs : applyEditsDelete(r)
  \/ \E r \in DOMAIN runs : queryFeaturesSettled(r)
  \/ \E r \in DOMAIN runs : applyEditsAdd(r)

LiveSpec == LiveInit /\ [][LiveNext]_vars /\ WF_vars(Resume)

(***************************************************************************)
(* Vocabulary of the properties.                                           *)
(***************************************************************************)
RECURSIVE SumAdjPop(_)
SumAdjPop(graphics) ==
  IF graphics = <<>> THEN 0
  ELSE Head(graphics).adjPop.v + SumAdjPop(Tail(graphics))

\* the clipped records a run produced for ring position i, for polygon fid
RecordsOfRing(r, i) ==
  SelectSeq(runs[r].featuresToAdd, LAMBDA g : g.index = i)
RecordsOfPolygon(r, fid) ==
  SelectSeq(runs[r].featuresToAdd, LAMBDA g : g.fid = fid)

RingPositions == 1..Len(BUFFER_DISTANCES_MILES(variant))
OuterDistance ==
  BUFFER_DISTANCES_MILES(variant)[Len(BUFFER_DISTANCES_MILES(variant))]

\* "<innerDistance>-<outerDistance> <unit>", the first ring labelled from 0
RingReportLabel(i) ==
  (IF i = 1 THEN "0"
   ELSE MilesToString(BUFFER_DISTANCES_MILES(variant)[i - 1]))
  \o "-" \o MilesToString(BUFFER_DISTANCES_MILES(variant)[i]) \o " miles"

\* the summary a finished run has reported: the widget state, and for the
\* variants that only log it, the console
Published(r) == runs[r].result = "published"
Reported(r) ==
  \/ state.reportOf = r
  \/ variant \in {"p000", "p004"} /\ consoleLog.run = r
ReportOf(r) ==
  IF state.reportOf = r THEN state.summaryStats ELSE consoleLog.summaryStats

(***************************************************************************)
(* C1.  Every clipped record has 0 <= areaRatio <= 1 and a reallocated     *)
(* population that does not exceed the reference population, also when the *)
(* clipped area is larger than the reference area.  Stated for the         *)
(* variants the claim cites, with a geometry engine that does not          *)
(* degenerate; it fails in main, which has no clamp.                       *)
(***************************************************************************)
C1_ClampedRecords ==
  variant \in {"main", "p001", "p004"} /\ degenerate.op = "none" =>
    \A r \in DOMAIN runs :
      \A k \in DOMAIN runs[r].featuresToAdd :
        LET g == runs[r].featuresToAdd[k]
        IN /\ g.ratio.t = "num"
           /\ 0 <= g.ratio.n
           /\ g.ratio.n <= g.ratio.d
           /\ IsNum(g.adjPop)
           /\ g.adjPop.v <= OrZero(g.TOTALPOP).v

(***************************************************************************)
(* C2.  When nothing degenerates, the rings the loop has queried cover     *)
(* exactly the buffer of the largest distance: the first ring is the whole *)
(* disc of the first distance.  (It fails in part_000 and part_004, whose  *)
(* loops start at the second distance.)                                    *)
(***************************************************************************)
C2_RingsCoverOuterDisc ==
  variant \in {"main", "p000", "p004"} /\ degenerate.op = "none" =>
    \A r \in DOMAIN runs :
      Published(r) =>
        /\ UNION {ringBuffer(variant, runs[r].queried[k]) :
                    k \in DOMAIN runs[r].queried} = buffer(OuterDistance)
        /\ runs[r].queried # <<>>
        /\ ringBuffer(variant, runs[r].queried[1])
             = buffer(BUFFER_DISTANCES_MILES(variant)[1])

(***************************************************************************)
(* C3.  For every source polygon the reallocated populations of all rings  *)
(* sum to at most its reference population.  Stated for polygons whose     *)
(* ACRES attribute is the area of their geometry and for rings that do not *)
(* overlap, so that only the per-ring rounding is left.                    *)
(***************************************************************************)
C3_PolygonNotOvercounted ==
  variant = "main" /\ degenerate.op = "none" =>
    \A r \in DOMAIN runs :
      \A fid \in DOMAIN census :
        census[fid].ACRES = Num(SumArea(census[fid].geom, Zones)) =>
          SumAdjPop(RecordsOfPolygon(r, fid))
            <= OrZero(census[fid].TOTALPOP).v

(***************************************************************************)
(* C4.  Once a newer run has published its report, the state shows neither *)
(* the summary nor any feature of a run that was started before it.        *)
(***************************************************************************)
C4_NoStaleReport ==
  variant = "main" =>
    \A older \in DOMAIN runs, newer \in DOMAIN runs :
      older < newer /\ Published(newer) =>
        /\ state.reportOf # older
        /\ \A g \in bufferLayer.graphics : g.run # older

(***************************************************************************)
(* C5.  A rejected queryFeatures promise does not end the run: the later   *)
(* rings are still queried and the run publishes its totals.               *)
(***************************************************************************)
C5_QueryFailureConfined ==
  variant \in {"main", "p000"} =>
    \A r \in DOMAIN runs :
      runs[r].failed = "queryFeatures" /\ runs[r].pc = "done" =>
        /\ Published(r)
        /\ \A i \in RingPositions :
             i > runs[r].index /\ ringBuffer(variant, i) # NoGeometry =>
               \E k \in DOMAIN runs[r].queried : runs[r].queried[k] = i

(***************************************************************************)
(* C6.  No reallocated population and no ring total of a reported summary  *)
(* is NaN.  (It fails in part_000, which adds to keys it never set and     *)
(* multiplies by a missing TOTALPOP.)                                      *)
(***************************************************************************)
C6_NoNaN ==
  variant \in {"main", "p000"} =>
    \A r \in DOMAIN runs :
      /\ \A k \in DOMAIN runs[r].featuresToAdd :
           IsNum(runs[r].featuresToAdd[k].adjPop)
      /\ Published(r) /\ Reported(r) =>
           \A label \in DOMAIN ReportOf(r) : IsNum(ReportOf(r)[label])

(***************************************************************************)
(* C7.  The total reported for a ring is the sum of the reallocated        *)
(* populations of exactly the candidates accepted for that ring: a ring    *)
(* without accepted candidates has no total other than 0, and no other key *)
(* of the summary carries population.                                      *)
(***************************************************************************)
C7_RingTotalIsSum ==
  variant \in {"main", "p006"} =>
    \A r \in DOMAIN runs :
      Published(r) /\ state.reportOf = r =>
        /\ \A i \in RingPositions :
             LET accepted == RecordsOfRing(r, i)
                 total == Get(state.summaryStats, ringLabel(variant, i))
             IN IF accepted = <<>> THEN total \in {undefined, Num(0)}
                ELSE total = Num(SumAdjPop(accepted))
        /\ \A label \in DOMAIN state.summaryStats :
             \/ state.summaryStats[label] = Num(0)
             \/ \E i \in RingPositions : label = ringLabel(variant, i)

\* a report in which one ring has two accepted candidates with population
\* and a candidate of the same query was skipped
C7_Witness ==
  /\ variant \in {"main", "p006"}
  /\ \E r \in DOMAIN runs :
       /\ Published(r) /\ state.reportOf = r
       /\ \E i \in RingPositions :
            /\ Len(RecordsOfRing(r, i)) >= 2
            /\ \A k \in DOMAIN RecordsOfRing(r, i) :
                 RecordsOfRing(r, i)[k].adjPop.v > 0
       /\ \E i \in RingPositions :
            /\ i \in SeqToSet(runs[r].queried)
            /\ Len(RecordsOfRing(r, i))
                 < Len(queryFeatures(ringBuffer(variant, i), Len(census)))

(***************************************************************************)
(* C8.  The final report carries a grandTotalPopulation equal to the sum   *)
(* of its ring totals.                                                     *)
(***************************************************************************)
C8_GrandTotal ==
  variant = "main" =>
    \A r \in DOMAIN runs :
      Published(r) /\ state.reportOf = r =>
        /\ "grandTotalPopulation" \in DOMAIN state
        /\ state["grandTotalPopulation"]
             = Num(SumAdjPop(runs[r].featuresToAdd))

(***************************************************************************)
(* C9.  Every ring that was built appears in the final report with a       *)
(* total, which is 0 when no candidate contributes to it.                  *)
(***************************************************************************)
C9_EveryRingReported ==
  variant = "main" /\ degenerate.op = "none" =>
    \A r \in DOMAIN runs :
      Published(r) /\ state.reportOf = r =>
        \A k \in DOMAIN runs[r].queried :
          LET i == runs[r].queried[k]
          IN /\ ringLabel(variant, i) \in DOMAIN state.summaryStats
             /\ RecordsOfRing(r, i) = <<>> =>
                  state.summaryStats[ringLabel(variant, i)] = Num(0)

(***************************************************************************)
(* C10.  The key under which a ring's population is accumulated is the     *)
(* key the summary holds for the ring, "<inner>-<outer> miles" with the    *)
(* first ring from 0: the report has one entry per ring and no entry that  *)
(* belongs to no ring.  Stated for part_000 and part_004, which declare    *)
(* the keys of the summary before the loop.                                *)
(***************************************************************************)
C10_OneLabelPerRing ==
  variant \in {"p000", "p004"} /\ degenerate.op = "none" =>
    \A r \in DOMAIN runs :
      Published(r) /\ Reported(r) =>
        /\ \A k \in DOMAIN runs[r].featuresToAdd :
             runs[r].featuresToAdd[k].label
               = RingReportLabel(runs[r].featuresToAdd[k].index)
        /\ DOMAIN ReportOf(r)
             = {RingReportLabel(runs[r].queried[k]) : k \in DOMAIN runs[r].queried}

\* the geometry a run clips its candidates with at position i
ClipGeometry(i) ==
  IF variant = "p007" THEN bufferGeometry ELSE ringBuffer(variant, i)

(***************************************************************************)
(* C11.  A candidate whose reference area is missing, <= 0 or NaN is       *)
(* skipped: no clipped record exists for it (so it adds nothing to a       *)
(* total), and the candidates of the same query that have a reference area *)
(* and a clipped part all have their record.  (It fails in part_007, which *)
(* divides by the measured area without looking at it.)                    *)
(***************************************************************************)
C11_SkippedCandidate ==
  variant \in {"main", "p007"} =>
    \A r \in DOMAIN runs :
      /\ \A k \in DOMAIN runs[r].featuresToAdd :
           GtZero(runs[r].featuresToAdd[k].ACRES)
      /\ Published(r) =>
           \A k \in DOMAIN runs[r].queried, fid \in DOMAIN census :
             LET i == runs[r].queried[k]
             IN GtZero(census[fid].ACRES)
                /\ clippedArea(census[fid], ClipGeometry(i)) > 0
                => \E j \in DOMAIN runs[r].featuresToAdd :
                     /\ runs[r].featuresToAdd[j].fid = fid
                     /\ runs[r].featuresToAdd[j].index = i

(***************************************************************************)
(* C12.  When the area measured for the clipped part of a candidate is     *)
(* larger than its reference area, the record carries the reference area   *)
(* as clipped area, the ratio 1 and exactly the reference population.      *)
(* (part_004 clamps; it fails in main, which has no clamp.)                *)
(***************************************************************************)
C12_ClampIsExact ==
  variant \in {"main", "p004"} /\ degenerate.op = "none" =>
    \A r \in DOMAIN runs :
      \A k \in DOMAIN runs[r].featuresToAdd :
        LET g == runs[r].featuresToAdd[k]
            measured == Num(clippedArea(census[g.fid], ringBuffer(variant, g.index)))
        IN Gt(measured, g.ACRES) =>
             /\ g.ACRES2 = g.ACRES
             /\ g.ratio.t = "num" /\ g.ratio.n = g.ratio.d
             /\ g.adjPop = OrZero(g.TOTALPOP)

\* the coordinates typed into the boxes parse to a latitude in [-90, 90] and
\* a longitude in [-180, 180]
ValidCoordinates(st) ==
  LET lat == parseFloat(st.latitude)
      lon == parseFloat(st.longitude)
  IN /\ IsNum(lat) /\ IsNum(lon)
     /\ 0 - 90 <= lat.v /\ lat.v <= 90
     /\ 0 - 180 <= lon.v /\ lon.v <= 180

\* the run has called the projection engine (and possibly more)
ReachedProjection(r) ==
  IF variant \in RingVariants THEN runs[r].pc # "idle"
  ELSE runs[r].calls # <<>>

(***************************************************************************)
(* C13.  A run reaches the projection engine, the geometry engine or the   *)
(* census layer only with the coordinates it was started with being valid. *)
(* (It fails in the second widget of part_004, whose button passes         *)
(* parseFloat of the boxes straight to processPoint.)                      *)
(***************************************************************************)
C13_ValidatedBeforeWork ==
  variant \in {"main", "p002", "p004b"} =>
    \A r \in DOMAIN runs :
      ReachedProjection(r) => ValidCoordinates(runs[r].state)

(***************************************************************************)
(* C14.  With an empty list of distances configured, no run calls the      *)
(* projection engine, the geometry engine or the census layer, and no run  *)
(* publishes results.  (It fails in part_002 and part_005, which find out  *)
(* that there is no buffer only after loading the projection engine and    *)
(* projecting the point.)                                                  *)
(***************************************************************************)
C14_EmptyDistancesRejected ==
  variant \in {"p002", "p005"} /\ bufferDistances = <<>> =>
    \A r \in DOMAIN runs :
      /\ runs[r].calls = <<>>
      /\ ~Published(r)

\* the summary the widget state holds
SummaryOf(st) ==
  IF variant \in RingVariants THEN st.summaryStats ELSE st.bufferResults

\* the run ended because the projection engine did not load, the point
\* could not be projected, or the census layer is not in the map
CollaboratorUnavailable(run) ==
  /\ run.pc = "done"
  /\ \/ run.failed = "projection.load"
     \/ /\ run.result = "error"
        /\ run.queried = <<>>
        /\ \A k \in DOMAIN run.calls : run.calls[k] \notin {"buffer", "queryFeatures"}

\* what C15 asks of one step
CollaboratorFailureStep ==
  variant \in {"main", "p002"} =>
    \A r \in DOMAIN runs :
      runs[r].pc # "done" /\ CollaboratorUnavailable(runs'[r]) =>
        /\ state'.errorMessage # null
        /\ ~state'.isLoading
        /\ runs'[r].queried = <<>>
        /\ SummaryOf(state') = SummaryOf(state)

(***************************************************************************)
(* C15.  The step in which a run ends because a collaborator is            *)
(* unavailable reports an error message, leaves isLoading false, has       *)
(* queried no ring and does not change the published summary.  (It fails   *)
(* in main: a rejected projection.load() is not caught.)                   *)
(***************************************************************************)
C15_CollaboratorFailureReported == [][CollaboratorFailureStep]_vars

(***************************************************************************)
(* C16.  A run has published its summary only when the query and the       *)
(* clipping of every ring it builds are over: the run is not waiting for a *)
(* query, every ring that has a geometry was queried, and the summary the  *)
(* state shows is the summary of the run as it is now.                     *)
(***************************************************************************)
C16_PublishedAfterAllRings ==
  variant \in {"main", "p006"} =>
    \A r \in DOMAIN runs :
      Published(r) =>
        /\ runs[r].pc = "done"
        /\ \A i \in RingPositions :
             i >= FirstIndex(variant) /\ ringBuffer(variant, i) # NoGeometry =>
               i \in SeqToSet(runs[r].queried)
        /\ state.reportOf = r => state.summaryStats = runs[r].summaryStats

\* a published run that queried several rings and clipped a candidate in a
\* ring after the first
C16_Witness ==
  /\ variant \in {"main", "p006"}
  /\ \E r \in DOMAIN runs :
       /\ Published(r) /\ state.reportOf = r
       /\ Len(runs[r].queried) >= 2
       /\ \E k \in DOMAIN runs[r].featuresToAdd :
            /\ runs[r].featuresToAdd[k].index >= 2
            /\ runs[r].featuresToAdd[k].adjPop.v > 0

\* the geometry engine returns null for the buffer at distance d, or for the
\* difference whose outer distance is d
NullBuffer(d) == degenerate.op = "buffer" /\ degenerate.d = d
NullDifference(d) == degenerate.op = "difference" /\ degenerate.d = d

\* building the ring at position i yields no geometry: one of its two
\* buffers is null, or their difference is null
YieldsNoGeometry(i) ==
  LET D == BUFFER_DISTANCES_MILES(variant)
  IN \/ NullBuffer(D[i])
     \/ i > 1 /\ (NullBuffer(D[i - 1]) \/ NullDifference(D[i]))

(***************************************************************************)
(* C17.  A ring whose construction yields no geometry is dropped: no query *)
(* is issued for it, while every other ring of the loop is queried and the *)
(* run publishes.  (It fails in main: when the inner buffer is null the    *)
(* whole outer disc is taken as the ring and queried.)                     *)
(***************************************************************************)
C17_DegenerateRingDropped ==
  variant \in {"main", "p000"} =>
    \A r \in DOMAIN runs :
      /\ \A k \in DOMAIN runs[r].queried : ~YieldsNoGeometry(runs[r].queried[k])
      /\ Published(r) =>
           \A i \in RingPositions :
             i >= FirstIndex(variant) /\ ~YieldsNoGeometry(i) =>
               i \in SeqToSet(runs[r].queried)

(***************************************************************************)
(* C18.  The rings a run has built and queried are pairwise disjoint.      *)
(* (It fails in main together with C17: the disc taken for a ring whose    *)
(* inner buffer is null contains the rings inside it.)                     *)
(***************************************************************************)
C18_RingsDisjoint ==
  variant = "main" =>
    \A r \in DOMAIN runs :
      \A k1 \in DOMAIN runs[r].queried, k2 \in DOMAIN runs[r].queried :
        k1 # k2 =>
          ringBuffer(variant, runs[r].queried[k1])
            \cap ringBuffer(variant, runs[r].queried[k2]) = {}

(***************************************************************************)
(* C19.  Rings are queried in ascending order of distance, and neither the *)
(* number of rings nor the number of entries of the reported summary is    *)
(* larger than the number of distances.  (It fails in part_004, whose      *)
(* report holds the keys declared before the loop and the keys of the      *)
(* labels.)                                                                *)
(***************************************************************************)
C19_AscendingAndBounded ==
  variant \in {"main", "p004"} =>
    \A r \in DOMAIN runs :
      /\ \A k1 \in DOMAIN runs[r].queried, k2 \in DOMAIN runs[r].queried :
           k1 < k2 => runs[r].queried[k1] < runs[r].queried[k2]
      /\ Len(runs[r].queried) <= Len(BUFFER_DISTANCES_MILES(variant))
      /\ Published(r) /\ Reported(r) =>
           Cardinality(DOMAIN ReportOf(r))
             <= Len(BUFFER_DISTANCES_MILES(variant))

\* round(min(clipped, reference) / reference * population), half rounded up
ExpectedPopulation(clipped, reference, population) ==
  LET c == IF clipped > reference THEN reference ELSE clipped
  IN (2 * c * population + reference) \div (2 * reference)

(***************************************************************************)
(* C20.  The reallocated population of every record is                     *)
(* round(clippedArea / referenceArea * referencePopulation) with the ratio *)
(* clamped to [0, 1], clippedArea being the area measured for the clipped  *)
(* part.  (It fails in main for want of the clamp, and in part_007, which  *)
(* does not round.)                                                        *)
(***************************************************************************)
C20_ReallocationFormula ==
  variant \in {"main", "p007"} /\ degenerate.op = "none" =>
    \A r \in DOMAIN runs :
      \A k \in DOMAIN runs[r].featuresToAdd :
        LET g == runs[r].featuresToAdd[k]
            measured == clippedArea(census[g.fid], ClipGeometry(g.index))
            expected == ExpectedPopulation(measured, g.ACRES.v,
                                           OrZero(g.TOTALPOP).v)
        IN GtZero(g.ACRES) =>
             IF variant = "p007"
             THEN g.adjPop.t = "num" /\ g.adjPop.n = expected * g.adjPop.d
             ELSE g.adjPop = Num(expected)

\* x is a non-negative integer; the populations of part_007 are fractions
NonNegativeInteger(x) ==
  IF variant = "p007"
  THEN x.t = "num" /\ x.n >= 0 /\ x.n % x.d = 0
  ELSE IsNum(x) /\ x.v >= 0

\* k is ratio * p rounded to the nearest integer, a half rounded upward
RoundHalfUp(k, ratio, p) ==
  /\ 2 * ratio.d * k <= 2 * ratio.n * p + ratio.d
  /\ 2 * ratio.d * k > 2 * ratio.n * p - ratio.d

(***************************************************************************)
(* C21.  Every reallocated population of a candidate with a non-negative   *)
(* reference population is a non-negative integer, the product of ratio    *)
(* and population rounded half up, and every total of a reported summary   *)
(* is a non-negative integer.  (It fails in part_000, whose totals are     *)
(* NaN, and in part_007, which does not round.)                            *)
(***************************************************************************)
C21_NonNegativeIntegers ==
  variant \in {"main", "p000", "p007"} =>
    \A r \in DOMAIN runs :
      /\ \A k \in DOMAIN runs[r].featuresToAdd :
           LET g == runs[r].featuresToAdd[k]
           IN IsNum(g.TOTALPOP) /\ g.TOTALPOP.v >= 0 =>
                /\ NonNegativeInteger(g.adjPop)
                /\ variant # "p007" /\ g.ratio.t = "num" =>
                     RoundHalfUp(g.adjPop.v, g.ratio, g.TOTALPOP.v)
      /\ variant # "p007" /\ Published(r) /\ Reported(r) =>
           \A label \in DOMAIN ReportOf(r) : NonNegativeInteger(ReportOf(r)[label])

\* the clipped records of a run, without the number of the run
RecordsOf(r) ==
  [k \in DOMAIN runs[r].featuresToAdd |->
     [runs[r].featuresToAdd[k] EXCEPT !.run = 0]]

SameSite(r1, r2) ==
  /\ runs[r1].state.latitude = runs[r2].state.latitude
  /\ runs[r1].state.longitude = runs[r2].state.longitude

SourceUntouched == variant \in {"main", "p001"} => census' = census

(***************************************************************************)
(* C23.  No step of a run adds to, removes from or changes the census      *)
(* layer the run queries.  (It fails in part_001, which empties the layer  *)
(* "census-layer" and then queries it.)                                    *)
(***************************************************************************)
C23_SourceReadOnly == [][SourceUntouched]_vars

(***************************************************************************)
(* C24.  Once the first run has been started, isLoading is eventually      *)
(* false, whatever the outcome of the run.  Checked under LiveSpec.  (It   *)
(* fails in main and part_000: when an awaited promise rejects, nothing    *)
(* resets isLoading.)                                                      *)
(***************************************************************************)
C24_LoadingEnds == (runs[1].pc # "idle") ~> ~state.isLoading

(***************************************************************************)
(* The final state update of a run.                                        *)
(***************************************************************************)
\* run r publishes its summary or its table in this step
Publishes(r) ==
  /\ r \in DOMAIN runs
  /\ runs[r].result # "published"
  /\ runs'[r].result = "published"

\* run r makes its last state update, or is left by an exception, in this step
Completes(r) ==
  /\ r \in DOMAIN runs
  /\ runs[r].pc \notin {"idle", "done"}
  /\ runs'[r].pc = "done"

PublishClearsError ==
  variant \in {"main", "p002"} =>
    \A r \in DOMAIN runs : Publishes(r) => state'.errorMessage = null

\* C25: whenever a run of processBuffer completes successfully and publishes
\* its summary, errorMessage is null in the resulting state, whatever error
\* message was showing when the run was started.
C25_PublishClearsError == [][PublishClearsError]_vars

InputFields == {"latitude", "longitude", "siteName", "jimuMapView"}

CompletionKeepsInputs ==
  variant = "main" =>
    \A r \in DOMAIN runs :
      Completes(r) => \A f \in InputFields : state'[f] = state[f]

\* C26: the completion of a run, successful or not, changes only isLoading,
\* errorMessage and the summary: a latitude, longitude, site name, census
\* year or map view set while the run was in flight keeps its latest value
\* after the final state update of the run.
C26_CompletionKeepsInputs == [][CompletionKeepsInputs]_vars

(***************************************************************************)
(* The rows of the cumulative widgets.                                     *)
(***************************************************************************)
\* the polygons among `features` that the buffer of distance d intersects
WithinDistance(features, d) ==
  SelectSeq(features, LAMBDA fid : Intersects(census[fid], buffer(d)))

\* C28: in the cumulative widgets the row of bufferDistances[i] is computed
\* from the buffer of that distance, and the census query uses the buffer of
\* the largest distance, also when the buffers of some distances could not
\* be created and were filtered out.
C28_RowsFromOwnBuffer ==
  variant \in {"p002", "p005"} =>
    \A r \in DOMAIN runs :
      Published(r) =>
        LET D == bufferDistances
            buffers == runs[r].allBufferGeometries
            features == queryFeatures(buffers[Len(buffers)], Len(census))
        IN /\ buffers[Len(buffers)] = buffer(D[Len(D)])
           /\ \A i \in DOMAIN D :
                buffer(D[i]) # NoGeometry =>
                  /\ state.bufferResults[i].Distance = D[i]
                  /\ state.bufferResults[i].Features =
                       Len(WithinDistance(features, D[i]))
                  /\ state.bufferResults[i].Population =
                       reduceSum(WithinDistance(features, D[i]), "TOTALPOP")

(***************************************************************************)
(* The click listener of part_009.                                         *)
(***************************************************************************)
\* every listener registered so far has been called for a click
EveryListenerClicked ==
  /\ mapView.registered > 0
  /\ \A l \in 1..mapView.registered :
       \E r \in DOMAIN runs : runs[r].listener = l

LaterClickIgnored ==
  variant = "p009" /\ mapView'.clicks > mapView.clicks /\ EveryListenerClicked
    => state' = state /\ runs' = runs

\* C27: after handleMapClick has registered its click listener exactly one
\* click is handled: a click after the first, also one that arrives while
\* the attribute query of the first is pending, calls no listener and
\* changes none of clickedPoint, latitude, longitude, state, county, city.
C27_OneClickHandled == [][LaterClickIgnored]_vars

(***************************************************************************)
(* The hit test of ReportWidget and of CensusBufferWidget.                 *)
(***************************************************************************)
\* the hit test of run r returned no results
NoHitResults(r) ==
  IF variant = "report"
  THEN runs[r].pc # "idle" /\ runs[r].hitResults = "empty"
  ELSE runs[r].result = "No feature selected."

\* C29: a map click whose hit test returns no results starts no processing
\* (no query, no state change) and raises no exception.
C29_EmptyHitTestIgnored ==
  variant \in {"report", "p007"} =>
    \A r \in DOMAIN runs :
      NoHitResults(r) =>
        /\ runs[r].failed = "none"
        /\ runs[r].result # "rejected"
        /\ runs[r].calls = <<"hitTest">>
        /\ variant = "report" =>
             runs[r].pending = {} /\ state = InitialStateReport

\* C30: queryPopulationWithinDistances publishes one record per distance
\* (0.25, 0.5, 1) in ascending order, and every field the population table
\* reads from a record is defined, so that rendering after a completed
\* query dereferences no undefined value.
C30_PopulationTableDefined ==
  variant = "report" =>
    \A r \in DOMAIN runs :
      Published(r) =>
        /\ Len(state.populationData) = Len(distances)
        /\ \A i \in DOMAIN distances :
             state.populationData[i].distance = distances[i]
        /\ render(state) = "rendered"
====
